---- MODULE Spec2Model ----
(***************************************************************************)
(* Model of pyxxl's process execution bridge:                              *)
(*   pyxxl/schema.py            RunData, RunData.from_dict, RunData.to_dict *)
(*   pyxxl/process_executor.py  run_handler_in_process,                     *)
(*                              _create_process_logger                      *)
(*                                                                         *)
(* SpecSchema exercises the pure (de)serialisation functions of RunData.   *)
(* Spec runs the bridge in one worker process that a pool reuses.          *)
(* SpecPool runs the bridge in two worker processes side by side.          *)
(***************************************************************************)
EXTENDS Integers, Sequences, FiniteSets, TLC

VARIABLES
    \* ---- schema.py: one (de)serialisation session
    phase,          \* "input" | "built" | "failed" | "dumped" | "rebuilt"
    data,           \* the mapping handed to from_dict
    carrier,        \* the RunData the session built first (<<>> when none)
    result,         \* outcome of the latest from_dict call
    \* ---- process_executor.py: per worker process
    pc,                     \* where the process is in run_handler_in_process
    handler_func,           \* argument handler_func
    run_data_dict,          \* argument run_data_dict
    logger_factory_info,    \* argument logger_factory_info
    run_data,               \* local run_data (<<>> before it is assigned)
    process_logger,         \* local process_logger (<<>> before it is assigned)
    calls,                  \* how often this invocation called handler_func
    outcome,                \* what the invocation returned or raised
    caught,                 \* the exception the except clause caught
    g,                      \* pyxxl.ctx.g of the process
    registry,               \* logging's logger registry of the process
    \* ---- shared by the processes
    dirs,                   \* directories on disk
    files,                  \* files on disk
    wrote                   \* files a log record was written to

schemaVars == <<phase, data, carrier, result>>

invocationVars ==
    <<pc, handler_func, run_data_dict, logger_factory_info, run_data,
      process_logger, calls, outcome, caught>>

processVars == <<invocationVars, g, registry, dirs, files, wrote>>

vars == <<schemaVars, processVars>>

(***************************************************************************)
(* Python values.  A value keeps its runtime type: an int, a str or None.  *)
(***************************************************************************)
IntV(n) == [t |-> "int", i |-> n, s |-> ""]
StrV(x) == [t |-> "str", i |-> 0, s |-> x]
NoneV == [t |-> "NoneType", i |-> 0, s |-> ""]

(***************************************************************************)
(* Python exceptions: the runtime kind, str(e) as the list of the parts it *)
(* is formatted from, and __cause__ (<<>> when unset, <<e>> when set).     *)
(***************************************************************************)
Exc(kind, msg, cause) == [kind |-> kind, msg |-> msg, cause |-> cause]

NoExc == Exc("", <<>>, <<>>)

(***************************************************************************)
(* schema.py: the dataclass RunData                                        *)
(***************************************************************************)
RequiredFields == {"jobId", "logId", "executorHandler", "executorBlockStrategy"}

OptionalFields ==
    {"executorParams", "executorTimeout", "logDateTime", "glueType",
     "glueSource", "glueUpdatetime", "broadcastIndex", "broadcastTotal"}

\* fields(cls)
class_fields == RequiredFields \cup OptionalFields

\* the annotated type of each field (Optional[...] admits None as well)
IntFields ==
    {"jobId", "logId", "executorTimeout", "logDateTime", "glueUpdatetime",
     "broadcastIndex", "broadcastTotal"}

FieldType(f) == IF f \in IntFields THEN "int" ELSE "str"

\* whether value v is compatible with the annotation of field f
Compatible(f, v) ==
    \/ v.t = FieldType(f)
    \/ f \in OptionalFields /\ v = NoneV

\* The generated __init__ of the dataclass: keyword arguments, a default of
\* None for the optional fields, TypeError when a required one is missing or
\* a keyword is no field.  It does not look at the type of any argument.
RunData(kwargs) ==
    IF DOMAIN kwargs \subseteq class_fields /\ RequiredFields \subseteq DOMAIN kwargs
    THEN [ok |-> TRUE,
          value |-> [f \in class_fields |->
                        IF f \in DOMAIN kwargs THEN kwargs[f] ELSE NoneV],
          exc |-> NoExc]
    ELSE [ok |-> FALSE,
          value |-> <<>>,
          exc |-> Exc("TypeError",
                      <<"__init__() got unexpected or missing arguments">>,
                      <<>>)]

\* from_dict without the filter on the field names
from_dict_unfiltered(d) == RunData(d)

\* RunData.from_dict: keep the keys that are field names, then construct
from_dict(d) ==
    RunData([k \in {k \in DOMAIN d : k \in class_fields} |-> d[k]])

\* RunData.to_dict: asdict(self), every field with its value
to_dict(c) == [f \in class_fields |-> c[f]]

NotCalled == [ok |-> FALSE, value |-> <<>>, exc |-> NoExc]

(***************************************************************************)
(* Inputs of the schema session                                            *)
(***************************************************************************)
\* how many optional fields an input mapping sets
MaxOptional == 2

ExtraKeys == {"extra", "unknownKey"}

ValidValue(f) ==
    CASE f = "logId" -> IntV(42)
      [] f = "executorHandler" -> StrV("demo")
      [] f = "executorBlockStrategy" -> StrV("SERIAL_EXECUTION")
      [] f \in IntFields -> IntV(1)
      [] OTHER -> StrV("x")

WrongValue(f) == IF f \in IntFields THEN StrV("abc") ELSE IntV(7)

ExtraValue == StrV("ignored")

\* the value a caller puts under field f: of the annotated type, of another
\* type, or None
Pick(f, choice) ==
    CASE choice = "valid" -> ValidValue(f)
      [] choice = "wrong" -> WrongValue(f)
      [] OTHER -> NoneV

\* the mapping with the required fields R, the optional fields O and the
\* unknown keys X, valued as r and o choose
Mapping(R, r, O, o, X) ==
    [k \in R \cup O \cup X |->
        IF k \in R THEN Pick(k, r[k])
        ELSE IF k \in O THEN Pick(k, o[k])
        ELSE ExtraValue]

SchemaData ==
    /\ phase = "input"
    /\ \E R \in SUBSET RequiredFields, X \in SUBSET ExtraKeys :
       \E O \in {S \in SUBSET OptionalFields : Cardinality(S) <= MaxOptional} :
       \E r \in [R -> {"valid", "wrong"}], o \in [O -> {"valid", "wrong", "none"}] :
          data = Mapping(R, r, O, o, X)
    /\ carrier = <<>>
    /\ result = NotCalled

\* from_dict on the caller's mapping
FromDict ==
    /\ phase = "input"
    /\ result' = from_dict(data)
    /\ phase' = IF result'.ok THEN "built" ELSE "failed"
    /\ carrier' = IF result'.ok THEN result'.value ELSE <<>>
    /\ UNCHANGED data
    /\ UNCHANGED processVars

\* to_dict on the carrier built, the mapping then extended with unknown keys
ToDict(X) ==
    /\ phase = "built"
    /\ data' = [k \in class_fields \cup X |->
                   IF k \in class_fields THEN to_dict(carrier)[k] ELSE ExtraValue]
    /\ phase' = "dumped"
    /\ UNCHANGED <<carrier, result>>
    /\ UNCHANGED processVars

\* from_dict on the serialised mapping
FromDictAgain ==
    /\ phase = "dumped"
    /\ result' = from_dict(data)
    /\ phase' = "rebuilt"
    /\ UNCHANGED <<data, carrier>>
    /\ UNCHANGED processVars

(***************************************************************************)
(* process_executor.py: _create_process_logger                             *)
(***************************************************************************)
\* logging.INFO
INFO == 20

\* a logger as logging.getLogger first creates it: no handler, NOTSET, propagating
NewLogger == [handlers |-> <<>>, level |-> 0, propagate |-> TRUE]

\* logging.getLogger(name): the registry entry of that name, created when absent
getLogger(reg, name) ==
    IF name \in DOMAIN reg THEN reg ELSE reg @@ (name :> NewLogger)

\* f"{log_id}"
Format(v) ==
    CASE v.t = "int" -> ToString(v.i)
      [] v.t = "str" -> v.s
      [] OTHER -> "None"

\* a disk logger name that leaves the log identifier out
DiskLoggerName_no_id(log_id) == "pyxxl.task_log.disk.task-"

\* f"pyxxl.task_log.disk.task-{log_id}"
DiskLoggerName(log_id) == "pyxxl.task_log.disk.task-" \o Format(log_id)

\* f"pyxxl.process.{log_id}"
FallbackLoggerName(log_id) == "pyxxl.process." \o Format(log_id)

\* a log file path that leaves the log identifier out
log_file_path_no_id(log_path, log_id) == log_path \o "/" \o "pyxxl-" \o ".log"

\* Path(log_path) / f"pyxxl-{log_id}.log"
log_file_path(log_path, log_id) ==
    log_path \o "/" \o "pyxxl-" \o Format(log_id) \o ".log"

\* a logging descriptor: None, or a dict
NoneInfo == [isNone |-> TRUE, items |-> <<>>]

DictInfo(d) == [isNone |-> FALSE, items |-> d]

\* logger_factory_info and logger_factory_info.get('type') == 'DiskLog'
IsDiskLog(info) ==
    /\ ~info.isNone
    /\ DOMAIN info.items # {}
    /\ "type" \in DOMAIN info.items
    /\ info.items["type"] = "DiskLog"

\* PyxxlStreamHandler() with TASK_FORMATTER at level INFO
stdout_handler ==
    [kind |-> "PyxxlStreamHandler", target |-> "stdout",
     formatter |-> "TASK_FORMATTER", level |-> INFO]

\* a file handler built without delay
FileHandlerEager == FALSE

\* the delay argument given to PyxxlFileHandler
FileHandlerDelay == TRUE

\* PyxxlFileHandler(str(log_file_path), delay=...) with TASK_FORMATTER at level INFO
file_handler(path) ==
    [kind |-> "PyxxlFileHandler", target |-> path,
     formatter |-> "TASK_FORMATTER", level |-> INFO]

\* logging.FileHandler.__init__: the file is opened (so created) at once
\* unless delay is set
FileHandlerOpens(fs_files, path, delay) ==
    IF delay THEN fs_files ELSE fs_files \cup {path}

\* logging.StreamHandler() with the timestamped formatter, level NOTSET
stream_handler ==
    [kind |-> "StreamHandler", target |-> "stderr",
     formatter |-> "%(asctime)s [%(name)s] %(levelname)s - %(message)s",
     level |-> 0]

\* the handlers left in place
KeepHandlers(hs) == hs

\* logger.handlers.clear()
ClearHandlers(hs) == <<>>

\* the DiskLog branch.  mkdir_ok: whether the file system lets
\* log_file_path.parent.mkdir(parents=True, exist_ok=True) succeed.
CreateDiskLogger(reg, fs_dirs, fs_files, log_id, info, mkdir_ok) ==
    IF "log_path" \notin DOMAIN info.items
    THEN [ok |-> FALSE, name |-> "", reg |-> reg, dirs |-> fs_dirs,
          files |-> fs_files,
          exc |-> Exc("KeyError", <<"'log_path'">>, <<>>)]
    ELSE
      LET log_path == info.items["log_path"]
          name == DiskLoggerName(log_id)
          reg1 == getLogger(reg, name)
          reg2 == [reg1 EXCEPT ![name] =
                      [handlers |-> Append(ClearHandlers(@.handlers), stdout_handler),
                       level |-> INFO,
                       propagate |-> FALSE]]
          path == log_file_path(log_path, log_id)
      IN  IF ~mkdir_ok
          THEN [ok |-> FALSE, name |-> "", reg |-> reg2, dirs |-> fs_dirs,
                files |-> fs_files,
                exc |-> Exc("PermissionError",
                            <<"[Errno 13] Permission denied: ", log_path>>, <<>>)]
          ELSE [ok |-> TRUE, name |-> name,
                reg |-> [reg2 EXCEPT ![name].handlers = Append(@, file_handler(path))],
                dirs |-> fs_dirs \cup {log_path},
                files |-> FileHandlerOpens(fs_files, path, FileHandlerDelay),
                exc |-> NoExc]

\* the console handler attached whatever is attached already
FallbackAttach_always(logger) ==
    [logger EXCEPT !.handlers = Append(@, stream_handler), !.level = INFO]

\* the fallback branch: attach the console handler unless one is attached
FallbackAttach(logger) ==
    IF logger.handlers = <<>>
    THEN [logger EXCEPT !.handlers = Append(@, stream_handler), !.level = INFO]
    ELSE logger

CreateFallbackLogger(reg, fs_dirs, fs_files, log_id) ==
    LET name == FallbackLoggerName(log_id)
        reg1 == getLogger(reg, name)
    IN  [ok |-> TRUE, name |-> name,
         reg |-> [reg1 EXCEPT ![name] = FallbackAttach(@)],
         dirs |-> fs_dirs, files |-> fs_files, exc |-> NoExc]

\* _create_process_logger(log_id, logger_factory_info)
create_process_logger(reg, fs_dirs, fs_files, log_id, info, mkdir_ok) ==
    IF IsDiskLog(info)
    THEN CreateDiskLogger(reg, fs_dirs, fs_files, log_id, info, mkdir_ok)
    ELSE CreateFallbackLogger(reg, fs_dirs, fs_files, log_id)

\* what the caller of _create_process_logger can tell about the logger it got
Snapshot(reg, name) ==
    [name |-> name, handlers |-> reg[name].handlers,
     level |-> reg[name].level, propagate |-> reg[name].propagate]

(***************************************************************************)
(* logging: a record of level lv logged through the logger called name.    *)
(* The files its file handlers write to (a file handler opens its file in  *)
(* append mode on the first record it emits).                              *)
(***************************************************************************)
EmitFiles(reg, name, lv) ==
    IF lv < reg[name].level
    THEN {}
    ELSE {reg[name].handlers[i].target :
            i \in {j \in DOMAIN reg[name].handlers :
                     /\ reg[name].handlers[j].kind = "PyxxlFileHandler"
                     /\ lv >= reg[name].handlers[j].level}}

(***************************************************************************)
(* process_executor.py: run_handler_in_process                             *)
(***************************************************************************)
\* exception classes whose constructor takes a lone message string
\* (UnicodeDecodeError takes exactly five arguments)
SingleMessageKinds ==
    {"ValueError", "TypeError", "KeyError", "PermissionError", "RuntimeError"}

\* getattr(handler_func, '__name__', 'unknown')
HandlerName(h) == IF h.name = <<>> THEN "unknown" ELSE h.name[1]

\* f"Error in process execution of {name}: {e}"
ErrorMessage(h, e) ==
    <<"Error in process execution of ", HandlerName(h), ": ">> \o e.msg

\* what the raise statement of the except clause raises:
\*     raise type(e)(message) from e
\* When type(e) cannot be called with one string the call itself raises a
\* TypeError, which leaves the function in place of the annotated exception
\* (and no cause gets set).
Reraise(h, e) ==
    IF e.kind \in SingleMessageKinds
    THEN Exc(e.kind, ErrorMessage(h, e), <<e>>)
    ELSE Exc("TypeError",
             <<"function takes exactly 5 arguments (1 given)">>, <<>>)

NoOutcome == [kind |-> "none", value |-> "", exc |-> NoExc]

Returned(v) == [kind |-> "return", value |-> v, exc |-> NoExc]

Raised(e) == [kind |-> "raise", value |-> "", exc |-> e]

\* pyxxl.ctx.g, the ambient state of a process: the current run data and the
\* current logger, both unset when the process starts
NoAmbient == [xxl_run_data |-> <<>>, task_logger |-> <<>>]

\* g.set_xxl_run_data(rd): rd becomes the current run data of the process
set_xxl_run_data(ambient, rd) == [ambient EXCEPT !.xxl_run_data = rd]

\* g.set_task_logger(lg): lg becomes the current logger of the process
set_task_logger(ambient, lg) == [ambient EXCEPT !.task_logger = lg]

\* the worker processes of the specification
Procs == DOMAIN pc

\* ---- the inputs of an invocation
\* a handler: its __name__ (<<>> when it has none, as a functools.partial),
\* the level of the record it logs through g.logger (<<>> when it logs
\* nothing), and the exception it raises (NoExc when it returns "ok")
Handler(name, logs, raises) == [name |-> name, logs |-> logs, raises |-> raises]

Handlers ==
    { Handler(<<"demo">>, <<INFO>>, NoExc),
      Handler(<<"quiet">>, <<>>, NoExc),
      Handler(<<"chatty">>, <<INFO - 10>>, NoExc),
      Handler(<<"my_handler">>, <<>>, Exc("ValueError", <<"boom">>, <<>>)),
      Handler(<<>>, <<INFO>>,
              Exc("UnicodeDecodeError",
                  <<"'utf-8' codec can't decode byte 0xff in position 0">>, <<>>)) }

LogIds == {1, 42}

\* {jobId: 1, logId: id, executorHandler: "demo",
\*  executorBlockStrategy: "SERIAL_EXECUTION"}
CarrierDict(id) ==
    [k \in RequiredFields |->
        CASE k = "jobId" -> IntV(1)
          [] k = "logId" -> IntV(id)
          [] k = "executorHandler" -> StrV("demo")
          [] OTHER -> StrV("SERIAL_EXECUTION")]

RunDataDicts ==
    {CarrierDict(id) : id \in LogIds}
    \cup {[k \in RequiredFields \ {"logId"} |-> CarrierDict(1)[k]]}

Descriptors ==
    { NoneInfo,
      DictInfo(("type" :> "DiskLog") @@ ("log_path" :> "/tmp/logs")),
      DictInfo("type" :> "DiskLog"),
      DictInfo("type" :> "RedisLog") }

ProcessInit(P) ==
    /\ pc = [p \in P |-> "idle"]
    /\ handler_func = [p \in P |-> Handler(<<>>, <<>>, NoExc)]
    /\ run_data_dict = [p \in P |-> <<>>]
    /\ logger_factory_info = [p \in P |-> NoneInfo]
    /\ run_data = [p \in P |-> <<>>]
    /\ process_logger = [p \in P |-> <<>>]
    /\ calls = [p \in P |-> 0]
    /\ outcome = [p \in P |-> NoOutcome]
    /\ caught = [p \in P |-> NoExc]
    /\ g = [p \in P |-> NoAmbient]
    /\ registry = [p \in P |-> <<>>]
    /\ dirs = {}
    /\ files = {}
    /\ wrote = {}

\* the pool hands the process a task: run_handler_in_process(h, d, info)
Invoke(p, h, d, info) ==
    /\ pc[p] \in {"idle", "returned", "raised"}
    /\ pc' = [pc EXCEPT ![p] = "from_dict"]
    /\ handler_func' = [handler_func EXCEPT ![p] = h]
    /\ run_data_dict' = [run_data_dict EXCEPT ![p] = d]
    /\ logger_factory_info' = [logger_factory_info EXCEPT ![p] = info]
    /\ run_data' = [run_data EXCEPT ![p] = <<>>]
    /\ process_logger' = [process_logger EXCEPT ![p] = <<>>]
    /\ calls' = [calls EXCEPT ![p] = 0]
    /\ outcome' = [outcome EXCEPT ![p] = NoOutcome]
    /\ caught' = [caught EXCEPT ![p] = NoExc]
    /\ UNCHANGED <<g, registry, dirs, files, wrote>>
    /\ UNCHANGED schemaVars

\* except Exception as e: raise type(e)(...) from e
Except(p, e) ==
    /\ pc' = [pc EXCEPT ![p] = "raised"]
    /\ caught' = [caught EXCEPT ![p] = e]
    /\ outcome' = [outcome EXCEPT ![p] = Raised(Reraise(handler_func[p], e))]

\* run_data = RunData.from_dict(run_data_dict)
StepFromDict(p) ==
    /\ pc[p] = "from_dict"
    /\ LET r == from_dict(run_data_dict[p])
       IN  IF r.ok
           THEN /\ run_data' = [run_data EXCEPT ![p] = <<r.value>>]
                /\ pc' = [pc EXCEPT ![p] = "set_xxl_run_data"]
                /\ UNCHANGED <<outcome, caught>>
           ELSE /\ Except(p, r.exc)
                /\ UNCHANGED run_data
    /\ UNCHANGED <<handler_func, run_data_dict, logger_factory_info,
                   process_logger, calls>>
    /\ UNCHANGED <<g, registry, dirs, files, wrote>>
    /\ UNCHANGED schemaVars

\* the step without the installation of run_data
StepSetRunData_skipped(p) ==
    /\ pc[p] = "set_xxl_run_data"
    /\ pc' = [pc EXCEPT ![p] = "create_logger"]
    /\ UNCHANGED <<handler_func, run_data_dict, logger_factory_info, run_data,
                   process_logger, calls, outcome, caught>>
    /\ UNCHANGED <<g, registry, dirs, files, wrote>>
    /\ UNCHANGED schemaVars

\* g.set_xxl_run_data(run_data)
StepSetRunData(p) ==
    /\ pc[p] = "set_xxl_run_data"
    /\ g' = [g EXCEPT ![p] = set_xxl_run_data(@, run_data[p])]
    /\ pc' = [pc EXCEPT ![p] = "create_logger"]
    /\ UNCHANGED <<handler_func, run_data_dict, logger_factory_info, run_data,
                   process_logger, calls, outcome, caught>>
    /\ UNCHANGED <<registry, dirs, files, wrote>>
    /\ UNCHANGED schemaVars

\* process_logger = _create_process_logger(run_data.logId, logger_factory_info)
StepCreateLogger(p, mkdir_ok) ==
    /\ pc[p] = "create_logger"
    /\ LET r == create_process_logger(registry[p], dirs, files,
                                      run_data[p][1]["logId"],
                                      logger_factory_info[p], mkdir_ok)
       IN  /\ registry' = [registry EXCEPT ![p] = r.reg]
           /\ dirs' = r.dirs
           /\ files' = r.files
           /\ IF r.ok
              THEN /\ process_logger' = [process_logger EXCEPT ![p] = <<r.name>>]
                   /\ pc' = [pc EXCEPT ![p] = "set_task_logger"]
                   /\ UNCHANGED <<outcome, caught>>
              ELSE /\ Except(p, r.exc)
                   /\ UNCHANGED process_logger
    /\ UNCHANGED <<handler_func, run_data_dict, logger_factory_info, run_data,
                   calls>>
    /\ UNCHANGED <<g, wrote>>
    /\ UNCHANGED schemaVars

\* the step without the installation of process_logger
StepSetTaskLogger_skipped(p) ==
    /\ pc[p] = "set_task_logger"
    /\ pc' = [pc EXCEPT ![p] = "handler"]
    /\ UNCHANGED <<handler_func, run_data_dict, logger_factory_info, run_data,
                   process_logger, calls, outcome, caught>>
    /\ UNCHANGED <<g, registry, dirs, files, wrote>>
    /\ UNCHANGED schemaVars

\* g.set_task_logger(process_logger)
StepSetTaskLogger(p) ==
    /\ pc[p] = "set_task_logger"
    /\ g' = [g EXCEPT ![p] = set_task_logger(@, process_logger[p])]
    /\ pc' = [pc EXCEPT ![p] = "handler"]
    /\ UNCHANGED <<handler_func, run_data_dict, logger_factory_info, run_data,
                   process_logger, calls, outcome, caught>>
    /\ UNCHANGED <<registry, dirs, files, wrote>>
    /\ UNCHANGED schemaVars

\* handler_func() is entered
StepCallHandler(p) ==
    /\ pc[p] = "handler"
    /\ calls' = [calls EXCEPT ![p] = @ + 1]
    /\ pc' = [pc EXCEPT ![p] = "running"]
    /\ UNCHANGED <<handler_func, run_data_dict, logger_factory_info, run_data,
                   process_logger, outcome, caught>>
    /\ UNCHANGED <<g, registry, dirs, files, wrote>>
    /\ UNCHANGED schemaVars

\* the handler logs its record through g.logger
HandlerLogs(p) ==
    /\ pc[p] = "running"
    /\ handler_func[p].logs # <<>>
    /\ LET written == IF g[p].task_logger = <<>> THEN {}
                      ELSE EmitFiles(registry[p], g[p].task_logger[1],
                                     handler_func[p].logs[1])
       IN  /\ files' = files \cup written
           /\ wrote' = wrote \cup written
    /\ pc' = [pc EXCEPT ![p] = "logged"]
    /\ UNCHANGED <<handler_func, run_data_dict, logger_factory_info, run_data,
                   process_logger, calls, outcome, caught>>
    /\ UNCHANGED <<g, registry, dirs>>
    /\ UNCHANGED schemaVars

\* the handler is over: return handler_func(), or the except clause
HandlerEnds(p) ==
    /\ \/ pc[p] = "running" /\ handler_func[p].logs = <<>>
       \/ pc[p] = "logged"
    /\ IF handler_func[p].raises = NoExc
       THEN /\ outcome' = [outcome EXCEPT ![p] = Returned("ok")]
            /\ pc' = [pc EXCEPT ![p] = "returned"]
            /\ UNCHANGED caught
       ELSE Except(p, handler_func[p].raises)
    /\ UNCHANGED <<handler_func, run_data_dict, logger_factory_info, run_data,
                   process_logger, calls>>
    /\ UNCHANGED <<g, registry, dirs, files, wrote>>
    /\ UNCHANGED schemaVars

Step(p) ==
    \/ StepFromDict(p)
    \/ StepSetRunData(p)
    \/ \E mkdir_ok \in BOOLEAN : StepCreateLogger(p, mkdir_ok)
    \/ StepSetTaskLogger(p)
    \/ StepCallHandler(p)
    \/ HandlerLogs(p)
    \/ HandlerEnds(p)

(***************************************************************************)
(* Specifications                                                          *)
(***************************************************************************)
SchemaIdle ==
    /\ phase = "input"
    /\ data = <<>>
    /\ carrier = <<>>
    /\ result = NotCalled

\* one worker process, reused by the pool for task after task
Init == SchemaIdle /\ ProcessInit({1})

Next ==
    \E p \in Procs :
        \/ \E h \in Handlers, d \in RunDataDicts, info \in Descriptors :
              Invoke(p, h, d, info)
        \/ Step(p)

Spec == Init /\ [][Next]_vars

\* a freshly spawned process is handed its one task
Spawn(p, h, d, info) ==
    /\ pc[p] = "idle"
    /\ Invoke(p, h, d, info)

\* two worker processes, spawned per task, running side by side
PoolInit == SchemaIdle /\ ProcessInit({1, 2})

PoolNext ==
    \E p \in Procs :
        \/ \E h \in Handlers, d \in RunDataDicts, info \in Descriptors :
              Spawn(p, h, d, info)
        \/ Step(p)

SpecPool == PoolInit /\ [][PoolNext]_vars

\* the (de)serialisation session of schema.py
SchemaInit == SchemaData /\ ProcessInit({1})

SchemaNext ==
    \/ FromDict
    \/ \E X \in SUBSET ExtraKeys : ToDict(X)
    \/ FromDictAgain

SpecSchema == SchemaInit /\ [][SchemaNext]_vars

(***************************************************************************)
(* Properties                                                              *)
(***************************************************************************)
Contains(seq, x) == \E i \in DOMAIN seq : seq[i] = x

EndsWith(seq, tail) ==
    /\ Len(seq) >= Len(tail)
    /\ SubSeq(seq, Len(seq) - Len(tail) + 1, Len(seq)) = tail

\* the handler of process p is executing
InHandler(p) == pc[p] \in {"running", "logged"}

\* the log identifier of the task process p runs, as an integer
OwnLogId(p) == run_data_dict[p]["logId"].i

\* the handlers of a logger that are of one of the kinds
CountKinds(logger, kinds) ==
    Cardinality({i \in DOMAIN logger.handlers : logger.handlers[i].kind \in kinds})

ConsoleKinds == {"PyxxlStreamHandler", "StreamHandler"}

FileKinds == {"PyxxlFileHandler"}

\* the registry entry of a name: <<logger>>, or <<>> when there is none
Entry(reg, name) == IF name \in DOMAIN reg THEN <<reg[name]>> ELSE <<>>

\* C1: whenever run_handler_in_process raises, the exception is of the kind
\* of the exception the except clause caught, its message holds the
\* handler's name ("unknown" without one) and the original message, and its
\* cause is the original exception.
C1_SameKindAnnotated ==
    \A p \in Procs :
        pc[p] = "raised" =>
            /\ outcome[p].exc.kind = caught[p].kind
            /\ Contains(outcome[p].exc.msg,
                        IF handler_func[p].name = <<>> THEN "unknown"
                        ELSE handler_func[p].name[1])
            /\ EndsWith(outcome[p].exc.msg, caught[p].msg)
            /\ outcome[p].exc.cause = <<caught[p]>>

\* a required field is missing from the mapping, or a value under a field
\* name is not of the field's type
Malformed(d) ==
    \/ ~(RequiredFields \subseteq DOMAIN d)
    \/ \E k \in DOMAIN d \cap class_fields : ~Compatible(k, d[k])

\* C2: from_dict fails with a construction error (Python's TypeError) on
\* every mapping that misses a required field or holds a value of an
\* incompatible type; it never returns a carrier for one.
C2_MalformedRejected ==
    (phase \in {"built", "failed"} /\ Malformed(data)) =>
        /\ ~result.ok
        /\ result.exc.kind = "TypeError"
        /\ phase = "failed"

\* C3: serialising a carrier, adding unknown keys and deserialising gives
\* the carrier back, field by field over all twelve fields, with the unset
\* optional fields still None; the unknown keys are ignored.
C3_RoundTrip ==
    phase = "rebuilt" =>
        /\ result.ok
        /\ DOMAIN result.value = class_fields
        /\ Cardinality(DOMAIN result.value) = 12
        /\ \A f \in class_fields : result.value[f] = carrier[f]
        /\ \A k \in DOMAIN data \ class_fields : k \notin DOMAIN result.value

\* C3 witness: a carrier with an optional field set and another left None
\* made the round trip through a mapping with an unknown key
C3_Witness ==
    /\ phase = "rebuilt"
    /\ "extra" \in DOMAIN data
    /\ carrier["executorParams"] = StrV("x")
    /\ carrier["glueSource"] = NoneV
    /\ result.ok

\* C4: in a process, however often a log identifier was used, the logger
\* _create_process_logger returned for a disk-backed descriptor has exactly
\* one console handler and one file handler, and the one it returned for any
\* other descriptor has exactly one console handler.
C4_IdempotentAttachment ==
    \A p \in Procs :
        process_logger[p] # <<>> =>
            LET logger == registry[p][process_logger[p][1]]
            IN  /\ CountKinds(logger, ConsoleKinds) = 1
                /\ IF IsDiskLog(logger_factory_info[p])
                   THEN /\ CountKinds(logger, FileKinds) = 1
                        /\ Len(logger.handlers) = 2
                   ELSE Len(logger.handlers) = 1

\* C4 witness: the disk logger of a log identifier is rebuilt in a process
\* whose ambient logger is still the one an earlier run built for the same
\* identifier
C4_Witness ==
    \E p \in Procs :
        /\ pc[p] = "set_task_logger"
        /\ IsDiskLog(logger_factory_info[p])
        /\ g[p].task_logger = process_logger[p]

\* C5: while the handlers of two invocations with different carriers run at
\* the same time, each sees its own carrier and its own logger in the
\* ambient state, never the other's.
C5_Isolation ==
    \A p \in Procs, q \in Procs :
        (p # q /\ InHandler(p) /\ InHandler(q)
              /\ run_data_dict[p] # run_data_dict[q]) =>
            /\ g[p].xxl_run_data = <<from_dict(run_data_dict[p]).value>>
            /\ g[p].xxl_run_data # g[q].xxl_run_data
            /\ g[p].xxl_run_data[1]["logId"] = IntV(OwnLogId(p))
            /\ g[p].task_logger # <<>>
            /\ g[p].task_logger # g[q].task_logger

\* C5 witness: two handlers run at the same time under different carriers
C5_Witness ==
    /\ InHandler(1) /\ InHandler(2)
    /\ OwnLogId(1) = 42 /\ OwnLogId(2) = 1
    /\ IsDiskLog(logger_factory_info[1])
    /\ ~IsDiskLog(logger_factory_info[2])

\* C6: a log file exists only once a record was written to it: building the
\* logger creates none, and an invocation whose handler logs nothing leaves
\* none.
C6_LazyLogFile ==
    /\ files \subseteq wrote
    /\ \A p \in Procs :
          (pc[p] = "returned" /\ wrote = {}) => files = {}

\* C6 witness: an invocation with a disk-backed descriptor returned without
\* logging and there is no log file
C6_Witness ==
    \E p \in Procs :
        /\ pc[p] = "returned"
        /\ IsDiskLog(logger_factory_info[p])
        /\ handler_func[p].logs = <<>>
        /\ "/tmp/logs" \in dirs
        /\ files = {}

\* the file handlers of the logger process p got from _create_process_logger
FileTargets(p) ==
    LET hs == registry[p][process_logger[p][1]].handlers
    IN  {hs[i].target : i \in {j \in DOMAIN hs : hs[j].kind \in FileKinds}}

C8_HandlerAfterInstallation ==
    \A p \in Procs :
        /\ calls[p] <= 1
        /\ calls[p] = 1 =>
              /\ from_dict(run_data_dict[p]).ok
              /\ run_data[p] = <<from_dict(run_data_dict[p]).value>>
              /\ process_logger[p] # <<>>
        /\ InHandler(p) =>
              /\ calls[p] = 1
              /\ g[p].xxl_run_data = <<from_dict(run_data_dict[p]).value>>
              /\ g[p].task_logger = process_logger[p]
              /\ g[p].task_logger[1] \in
                    {"pyxxl.task_log.disk.task-" \o ToString(OwnLogId(p)),
                     "pyxxl.process." \o ToString(OwnLogId(p))}
        /\ (pc[p] = "raised" /\ (run_data[p] = <<>> \/ process_logger[p] = <<>>))
              => calls[p] = 0

\* C8 witness: in a process whose earlier run left another logger behind, a
\* handler runs
C8_Witness ==
    \E p \in Procs :
        /\ pc[p] = "running"
        /\ calls[p] = 1
        /\ OwnLogId(p) = 42
        /\ "pyxxl.process.1" \in DOMAIN registry[p]

\* the logger a fresh process builds for the descriptor and log identifier
FreshLogger(info, log_id) ==
    LET r == create_process_logger(<<>>, {}, {}, log_id, info, TRUE)
    IN  Snapshot(r.reg, r.name)

\* C9: the logger _create_process_logger returns depends on the descriptor
\* and the log identifier alone: whatever ran in the process before, it is
\* the logger a fresh process builds (same identity, handlers, output
\* targets, propagation), and its level is INFO.
C9_DeterministicLogger ==
    \A p \in Procs :
        process_logger[p] # <<>> =>
            /\ Snapshot(registry[p], process_logger[p][1]) =
                  FreshLogger(logger_factory_info[p], run_data[p][1]["logId"])
            /\ registry[p][process_logger[p][1]].level = INFO

\* C9 witness: the fallback logger of a log identifier is returned again in
\* a process whose ambient logger is the one an earlier run got for it
C9_Witness ==
    \E p \in Procs :
        /\ pc[p] = "set_task_logger"
        /\ ~IsDiskLog(logger_factory_info[p])
        /\ g[p].task_logger = process_logger[p]
        /\ Cardinality(DOMAIN registry[p]) >= 3

\* process p is about to rebuild the logger of log identifier id
Rebuilds(p, id) ==
    /\ pc[p] = "create_logger"
    /\ run_data[p][1]["logId"] = IntV(id)

\* C10: rebuilding the logger of log identifier A leaves the registry
\* entries of every other log identifier as they are; the disk-backed and
\* the fallback logger of one identifier are two entries, and rebuilding the
\* one leaves the other as it is.
C10_OtherLoggersUntouched ==
    [][\A p \in Procs : \A id \in LogIds :
          LET disk == DiskLoggerName(IntV(id))
              fallback == FallbackLoggerName(IntV(id))
          IN  /\ disk # fallback
              /\ ~Rebuilds(p, id) =>
                    /\ Entry(registry'[p], disk) = Entry(registry[p], disk)
                    /\ Entry(registry'[p], fallback) = Entry(registry[p], fallback)
              /\ (Rebuilds(p, id) /\ IsDiskLog(logger_factory_info[p])) =>
                    Entry(registry'[p], fallback) = Entry(registry[p], fallback)
              /\ (Rebuilds(p, id) /\ ~IsDiskLog(logger_factory_info[p])) =>
                    Entry(registry'[p], disk) = Entry(registry[p], disk)
      ]_vars

\* C10 witness: the disk logger of 42 was rebuilt in a process that holds
\* the fallback logger of 42 and both loggers of 1
C10_Witness ==
    \E p \in Procs :
        /\ pc[p] = "set_task_logger"
        /\ process_logger[p] = <<"pyxxl.task_log.disk.task-42">>
        /\ g[p].task_logger = process_logger[p]
        /\ {"pyxxl.process.42", "pyxxl.process.1", "pyxxl.task_log.disk.task-1"}
              \subseteq DOMAIN registry[p]

====
